---- MODULE Spec2Model ----
(***************************************************************************)
(* CompanyPointCloudExtension (company/point/cloud/extension.py).          *)
(*                                                                         *)
(* State: the extension object's fields set by on_startup, and the point   *)
(* primitives /World/Point_{i}_{j}_{k} of the USD stage, kept as the set   *)
(* of triples <<i, j, k>> (the path format is injective in its three       *)
(* integers).  The two handlers, the per-frame callback _on_update and the *)
(* "Load NetCDF" button, are one action each; everything a handler calls   *)
(* (load_netcdf_point_cloud, add_point_cloud_in_grid, remove_points) is    *)
(* computed inside that action by the operators below.                     *)
(*                                                                         *)
(* Units: time in whole seconds; a concentration c stands for the value    *)
(* c / 1000; an LOD factor is kept in tenths (10, 5, 1).                   *)
(*                                                                         *)
(* What a pass meets outside the object (the file, the shape of its        *)
(* variable, the stage, the camera, the result of Sphere.Define) is an     *)
(* input of the handler, a record of Envs.                                 *)
(*                                                                         *)
(* Spec: both handlers under every record of Envs.  SpecHandlers: both     *)
(* handlers under every frame time, on grids with one sample entry.        *)
(* SpecCycle: the same with the loads counted.  SpecPoints: the point      *)
(* count formula on its own.                                               *)
(***************************************************************************)
EXTENDS Integers, Sequences, FiniteSets, TLC

VARIABLES
    current_file_index,   \* self._current_file_index
    first_poll,           \* self._first_poll
    last_x,               \* self._last_x
    last_z,               \* self._last_z
    last_num_points,      \* self._last_num_points
    update_timer,         \* self._update_timer
    prims,                \* point primitives of the stage, <<i, j, k>>
    grid,                 \* gas_concentration of the last pass that read one
    call,                 \* what the last handler invocation did
    loads,                \* invocations of load_netcdf_point_cloud, mod FileCount
    okLoads,              \* passes completed without error, mod 2 * FileCount
    probe                 \* inputs and results of the point-count formula

vars == <<current_file_index, first_poll, last_x, last_z, last_num_points,
          update_timer, prims, grid, call, loads, okLoads, probe>>

-----------------------------------------------------------------------------
(* Program constants *)

FileCount == 12
UpdateInterval == 10
GridSize == 150
WorldSize == 1500
CellSize == 10
ScaleFactor == 1000
NearDistance == 200
MidDistance == 500

(* Bounds of the model *)

NumEntries == 3      \* grid entries that may be nonzero
MaxConc == 2         \* largest concentration of an entry, in thousandths
MaxDefineOk == 1     \* Sphere.Define calls that succeed before one fails
ProbeMax == 25       \* largest concentration given to the formula alone

-----------------------------------------------------------------------------
(* Arithmetic helpers *)

Max(a, b) == IF a >= b THEN a ELSE b

\* int(a / b) for b > 0: Python's int() truncates toward zero
TruncDiv(a, b) == IF a >= 0 THEN a \div b ELSE -((-a) \div b)

\* (x, z) < (x2, z2) in the order the two nested loops visit the entries
LexLess(p, q) == p[1] < q[1] \/ (p[1] = q[1] /\ p[2] < q[2])

-----------------------------------------------------------------------------
(* add_point_cloud_in_grid: the arithmetic *)

\* i = int((x + half_world_x) / cell_size) - int(world_size_x / (2 * cell_size))
CellIndex(x) ==
    TruncDiv(x * 2 + WorldSize, 2 * CellSize) - TruncDiv(WorldSize, 2 * CellSize)

\* squared length of cam_position - Vec3f(x, 0, z)
DistanceSq(cam, x, z) ==
    (cam[1] - x) * (cam[1] - x) + cam[2] * cam[2] + (cam[3] - z) * (cam[3] - z)

\* the LOD factor, in tenths
LodFactor(cam, x, z) ==
    IF DistanceSq(cam, x, z) < NearDistance * NearDistance THEN 10
    ELSE IF DistanceSq(cam, x, z) < MidDistance * MidDistance THEN 5
    ELSE 1

\* a plausible slip: the clamp max(1, .) left out
NumPointsNoClamp(c, lod) == TruncDiv(c * ScaleFactor * lod, 1000 * 10)

\* num_points = max(1, int(gas_concentration * 1000 * lod_factor))
NumPoints(c, lod) == Max(1, TruncDiv(c * ScaleFactor * lod, 1000 * 10))

PointPath(i, j, k) == <<i, j, k>>

CellPaths(i, j, n) == {PointPath(i, j, k) : k \in 0..(n - 1)}

-----------------------------------------------------------------------------
(* What a pass reads from its surroundings *)

\* the grid entries (x, z) that may hold a nonzero concentration, in loop
\* order; every other entry of the 150 x 150 array is 0
SampleEntries == << <<0, 0>>, <<0, 1>>, <<10, 0>>, <<149, 149>>, <<149, 148>> >>

EntryCount == IF NumEntries < 4 THEN NumEntries ELSE 4

Entries == SubSeq(SampleEntries, 1, EntryCount)

Concentrations == {0, MaxConc}

Grids == [1..EntryCount -> Concentrations]

\* camera positions of a pass: every cell near, or cell (0, 0) beyond 200 m
CamPositions == {<<0, 0, 0>>, <<205, 0, 0>>}

\* camera positions for the point-count formula, one per LOD factor
ProbeCams == {<<0, 0, 0>>, <<0, 300, 0>>, <<0, 600, 0>>}

FullShape == <<GridSize, GridSize>>

\* shapes of the "concentrations" variable smaller than the loops assume
BadShapes == {<<GridSize, 1>>, <<10, GridSize>>}

NoFault(g, c) ==
    [file |-> "ok", shape |-> FullShape, stage |-> TRUE, camera |-> TRUE,
     cam |-> c, defines |-> -1, grid |-> g]

SomeGrid == [n \in 1..EntryCount |-> 0]

\* one fault at most per pass: the pass ends at its first error, so a second
\* fault would never be seen
Envs ==
    {NoFault(g, c) : g \in Grids, c \in CamPositions}
    \cup {[NoFault(SomeGrid, <<0, 0, 0>>) EXCEPT !.file = f] :
             f \in {"open", "variable", "read"}}
    \cup {[NoFault(g, <<0, 0, 0>>) EXCEPT !.shape = sh] : g \in Grids, sh \in BadShapes}
    \cup {[NoFault(g, <<0, 0, 0>>) EXCEPT !.stage = FALSE] : g \in Grids}
    \cup {[NoFault(g, <<0, 0, 0>>) EXCEPT !.camera = FALSE] : g \in Grids}
    \cup {[NoFault(g, <<0, 0, 0>>) EXCEPT !.defines = d] :
             g \in Grids, d \in 0..MaxDefineOk}

\* the first index the loops reach that lies outside an array of this shape;
\* <<GridSize, 0>> when there is none
FirstBadIndex(shape) ==
    IF shape[1] = 0 THEN <<0, 0>>
    ELSE IF shape[2] < GridSize THEN <<0, shape[2]>>
    ELSE IF shape[1] < GridSize THEN <<shape[1], 0>>
    ELSE <<GridSize, 0>>

-----------------------------------------------------------------------------
(* remove_points and add_point_cloud_in_grid on the state of a running pass *)

\* s: [prims, first_poll, last_x, last_z, last_num_points, defines, created,
\*     removed, afterRemove, exc, msg]; exc = "none" while no error was raised,
\* msg tells the RuntimeErrors apart (read, stage, camera, point)

RemovePoints(s, env, x, z, num_points) ==
    IF ~env.stage
    THEN [s EXCEPT !.exc = "RuntimeError", !.msg = "stage"]
    ELSE LET left == s.prims \ CellPaths(x, z, num_points)
         IN  [s EXCEPT !.prims = left, !.removed = TRUE, !.afterRemove = left]

\* the loop over range(num_points), then the bookkeeping of lines 152-154;
\* made: the Sphere.Define calls of the loop that return a valid prim
CreatePoints(s, i, j, num_points, made) ==
    IF made < num_points
    THEN [s EXCEPT !.prims = @ \cup CellPaths(i, j, made),
                   !.created = @ \cup CellPaths(i, j, made),
                   !.defines = 0,
                   !.exc = "RuntimeError", !.msg = "point"]
    ELSE [s EXCEPT !.prims = @ \cup CellPaths(i, j, num_points),
                   !.created = @ \cup CellPaths(i, j, num_points),
                   !.defines = IF @ < 0 THEN @ ELSE @ - num_points,
                   !.last_x = i, !.last_z = j, !.last_num_points = num_points]

\* from self._first_poll = 1 on
AddAfterRemove(s, env, x, z, num_points) ==
    IF s.exc # "none" THEN s
    ELSE IF ~env.stage
    THEN [s EXCEPT !.first_poll = 1, !.exc = "RuntimeError", !.msg = "stage"]
    ELSE IF ~env.camera
    THEN [s EXCEPT !.first_poll = 1, !.exc = "RuntimeError", !.msg = "camera"]
    ELSE CreatePoints([s EXCEPT !.first_poll = 1], CellIndex(x), CellIndex(z),
                      num_points,
                      IF s.defines < 0 \/ s.defines >= num_points
                      THEN num_points ELSE s.defines)

AddPointCloudInGrid(s, env, x, z, conc) ==
    AddAfterRemove(IF s.first_poll = 1
                   THEN RemovePoints(s, env, s.last_x, s.last_z, s.last_num_points)
                   ELSE s,
                   env, x, z, NumPoints(conc, LodFactor(env.cam, x, z)))

-----------------------------------------------------------------------------
(* load_netcdf_point_cloud *)

\* the two loops, from the n-th sample entry on
RECURSIVE RenderFrom(_, _, _)
RenderFrom(s, env, n) ==
    IF s.exc # "none" THEN s
    ELSE IF n > EntryCount
    THEN IF FirstBadIndex(env.shape) # <<GridSize, 0>>
         THEN [s EXCEPT !.exc = "IndexError"] ELSE s
    ELSE IF ~LexLess(Entries[n], FirstBadIndex(env.shape))
    THEN [s EXCEPT !.exc = "IndexError"]
    ELSE IF env.grid[n] = 0
    THEN RenderFrom(s, env, n + 1)
    ELSE RenderFrom(AddPointCloudInGrid(s, env, Entries[n][1], Entries[n][2],
                                        env.grid[n]), env, n + 1)

\* a narrower handler: only the errors of opening and reading the file
CaughtFileErrorsOnly(exc) == exc \in {"OSError", "KeyError"}

\* a narrower handler: only RuntimeError
CaughtRuntimeErrorOnly(exc) == exc = "RuntimeError"

\* except Exception as e: every error raised in the try block is an Exception
Caught(exc) == exc \in {"OSError", "KeyError", "IndexError", "RuntimeError"}

NextFileIndexMod11(idx) == (idx + 1) % (FileCount - 1)

\* self._current_file_index = (self._current_file_index + 1) % 12
NextFileIndex(idx) == (idx + 1) % FileCount

\* the increment moved out of the try block
IndexAfterPassAlways(idx, exc) == NextFileIndex(idx)

\* the increment is the last statement of the try block
IndexAfterPass(idx, exc) == IF exc = "none" THEN NextFileIndex(idx) ELSE idx

PassStart ==
    [prims |-> prims, first_poll |-> first_poll, last_x |-> last_x,
     last_z |-> last_z, last_num_points |-> last_num_points,
     defines |-> 0, created |-> {}, removed |-> FALSE, afterRemove |-> {},
     exc |-> "none", msg |-> ""]

LoadResult(env) ==
    IF env.file = "open" THEN [PassStart EXCEPT !.exc = "OSError"]
    ELSE IF env.file = "variable" THEN [PassStart EXCEPT !.exc = "KeyError"]
    ELSE IF env.file = "read"
    THEN [PassStart EXCEPT !.exc = "RuntimeError", !.msg = "read"]
    ELSE RenderFrom([PassStart EXCEPT !.defines = env.defines], env, 1)

\* the whole of load_netcdf_point_cloud; h and dt describe the caller
LoadNetcdfPointCloud(env, h, dt) ==
    \E r \in {LoadResult(env)} :
        /\ prims' = r.prims
        /\ first_poll' = r.first_poll
        /\ last_x' = r.last_x
        /\ last_z' = r.last_z
        /\ last_num_points' = r.last_num_points
        /\ current_file_index' = IndexAfterPass(current_file_index, r.exc)
        /\ grid' = IF env.file = "ok" THEN env.grid ELSE grid
        /\ call' = [handler |-> h, dt |-> dt, loads |-> 1, opens |-> 1,
                    exc |-> IF r.exc = "none" THEN "ok" ELSE r.exc,
                    msg |-> r.msg,
                    raised |-> r.exc # "none" /\ ~Caught(r.exc),
                    created |-> r.created, removed |-> r.removed,
                    afterRemove |-> r.afterRemove]

-----------------------------------------------------------------------------
(* The handlers *)

FrameTimes == {0, 5, 10}

UpdateFiresLate(timer) == timer > UpdateInterval

\* if self._update_timer >= self._update_interval
UpdateFires(timer) == timer >= UpdateInterval

NoLoad(h, dt) ==
    [handler |-> h, dt |-> dt, loads |-> 0, opens |-> 0, exc |-> "idle",
     msg |-> "",
     raised |-> FALSE, created |-> {}, removed |-> FALSE, afterRemove |-> {}]

\* _on_update, over the frame times F and the surroundings E
OnUpdate(F, E) ==
    \E dt \in F :
        IF UpdateFires(update_timer + dt)
        THEN /\ update_timer' = 0
             /\ \E env \in E : LoadNetcdfPointCloud(env, "update", dt)
        ELSE /\ update_timer' = update_timer + dt
             /\ call' = NoLoad("update", dt)
             /\ UNCHANGED <<current_file_index, first_poll, last_x, last_z,
                            last_num_points, prims, grid>>

\* clicked_fn = self.load_netcdf_point_cloud
ButtonClicked(E) ==
    /\ \E env \in E : LoadNetcdfPointCloud(env, "button", 0)
    /\ UNCHANGED update_timer

\* the point-count formula has not been asked
NoProbe == [c1 |-> 0, c2 |-> 0, cam |-> <<0, 0, 0>>, lod |-> 0, n1 |-> -1, n2 |-> -1]

Init ==
    /\ current_file_index = 0
    /\ first_poll = 0
    /\ last_x = 0
    /\ last_z = 0
    /\ last_num_points = 0
    /\ update_timer = 0
    /\ prims = {}
    /\ grid = SomeGrid
    /\ call = NoLoad("none", 0)
    /\ loads = 0
    /\ okLoads = 0
    /\ probe = NoProbe

-----------------------------------------------------------------------------
(* Specifications *)

\* the handlers under every surrounding of Envs, each frame a timer tick
Frame == OnUpdate({UpdateInterval}, Envs) /\ UNCHANGED <<loads, okLoads, probe>>

Click == ButtonClicked(Envs) /\ UNCHANGED <<loads, okLoads, probe>>

Next == Frame \/ Click

Spec == Init /\ [][Next]_vars

\* the handlers on grids whose first sample entry alone may be nonzero, with
\* every frame time
EnvsOneEntry == {e \in Envs : \A n \in 2..EntryCount : e.grid[n] = 0}

FrameOneEntry ==
    OnUpdate(FrameTimes, EnvsOneEntry) /\ UNCHANGED <<loads, okLoads, probe>>

ClickOneEntry ==
    ButtonClicked(EnvsOneEntry) /\ UNCHANGED <<loads, okLoads, probe>>

NextHandlers == FrameOneEntry \/ ClickOneEntry

SpecHandlers == Init /\ [][NextHandlers]_vars

\* the handlers with the loads counted: loads is the number of invocations of
\* load_netcdf_point_cloud so far, okLoads the number that completed
CountLoads ==
    /\ loads' = (loads + call'.loads) % FileCount
    /\ okLoads' = IF call'.exc = "ok" THEN (okLoads + 1) % (2 * FileCount)
                  ELSE okLoads
    /\ UNCHANGED probe

\* loads that complete, fail on the file or fail on the host
EnvsCycle ==
    {e \in EnvsOneEntry : e.shape = FullShape /\ e.defines < 0 /\ e.cam = <<0, 0, 0>>}

FrameCounted == OnUpdate({5, 10}, EnvsCycle) /\ CountLoads

ClickCounted == ButtonClicked(EnvsCycle) /\ CountLoads

NextCycle == FrameCounted \/ ClickCounted

SpecCycle == Init /\ [][NextCycle]_vars

\* the point-count formula alone, on two concentrations of the entry (0, 0)
\* under one camera position
ProbeRange == (-ProbeMax)..ProbeMax

InitPoints ==
    /\ current_file_index = 0
    /\ first_poll = 0
    /\ last_x = 0
    /\ last_z = 0
    /\ last_num_points = 0
    /\ update_timer = 0
    /\ prims = {}
    /\ grid = SomeGrid
    /\ call = NoLoad("none", 0)
    /\ loads = 0
    /\ okLoads = 0
    /\ probe \in [c1 : ProbeRange, c2 : ProbeRange, cam : ProbeCams,
                  lod : {0}, n1 : {-1}, n2 : {-1}]

ComputePoints ==
    /\ probe.n1 = -1
    /\ probe' = [probe EXCEPT
                     !.lod = LodFactor(probe.cam, 0, 0),
                     !.n1 = NumPoints(probe.c1, LodFactor(probe.cam, 0, 0)),
                     !.n2 = NumPoints(probe.c2, LodFactor(probe.cam, 0, 0))]
    /\ UNCHANGED <<current_file_index, first_poll, last_x, last_z,
                   last_num_points, update_timer, prims, grid, call, loads,
                   okLoads>>

NextPoints == ComputePoints

SpecPoints == InitPoints /\ [][NextPoints]_vars

-----------------------------------------------------------------------------
(* Properties *)

Cell(n) == <<CellIndex(Entries[n][1]), CellIndex(Entries[n][2])>>

CellsOf(paths) == {<<p[1], p[2]>> : p \in paths}

NonzeroCells(g) == {Cell(n) : n \in {m \in 1..EntryCount : g[m] # 0}}

\* nc.Dataset(...) failed, "concentrations" is missing, or concentrations[:]
\* failed
IsFileError(c) == c.exc \in {"OSError", "KeyError"} \/ c.msg = "read"

\* C1: after a render pass that finished without error, the cells that hold
\* live points are exactly the cells of the nonzero entries of the grid the
\* pass loaded.
C1_LivePointsMatchGrid ==
    call.exc = "ok" => CellsOf(prims) = NonzeroCells(grid)

\* C2: once remove_points(last_x, last_z, last_num_points) has run at the
\* start of add_point_cloud_in_grid, no point primitive is left in the
\* stage, whatever passes came before.
C2_NoPointsAfterRemove ==
    call.removed => call.afterRemove = {}

\* C3 as claimed: after 12 invocations of load_netcdf_point_cloud the file
\* index is back at the value it had before the first of them (0 at startup).
C3_TwelveLoadsReturn ==
    loads = 0 => current_file_index = 0

\* C3: the file index is the number of loads that completed without error,
\* modulo 12; so it is back at its starting value after every 12 completed
\* loads, however many failed loads lie between them.
C3_TwelveCompletedLoadsReturn ==
    current_file_index = okLoads % FileCount

C3_Witness ==
    okLoads = FileCount /\ current_file_index = 0 /\ loads # 0

\* C4: a load that fails opening the file or reading its variable returns
\* normally: no exception leaves it, the file was opened once, the points of
\* the stage and the bookkeeping are as before, nothing was removed.
C4_FileErrorAbandonsPass ==
    [][IsFileError(call') =>
          /\ ~call'.raised
          /\ call'.loads = 1 /\ call'.opens = 1
          /\ ~call'.removed /\ call'.created = {}
          /\ UNCHANGED <<prims, first_poll, last_x, last_z, last_num_points,
                         current_file_index, grid>>]_vars

C4_Witness ==
    call.exc = "OSError" /\ prims # {} /\ ~call.raised

\* C5 as claimed: the RuntimeError of a missing stage or camera leaves
\* load_netcdf_point_cloud and reaches its caller.
C5_HostErrorPropagates ==
    (call.exc = "RuntimeError" /\ call.msg \in {"stage", "camera"}) => call.raised

\* C5: the RuntimeError of a missing stage or camera is caught by the handler
\* of load_netcdf_point_cloud like any other: the call returns normally and
\* the file index stays.
C5_HostErrorCaught ==
    [][(call'.exc = "RuntimeError" /\ call'.msg \in {"stage", "camera"}) =>
          /\ ~call'.raised
          /\ current_file_index' = current_file_index]_vars

C5_Witness ==
    /\ call.exc = "RuntimeError" /\ call.msg = "camera"
    /\ call.removed /\ ~call.raised

C7_PointCountMonotone ==
    probe.n1 # -1 =>
        /\ probe.c1 <= probe.c2 => probe.n1 <= probe.n2
        /\ probe.c1 > 0 => probe.n1 >= 1

C7_Witness ==
    /\ probe.lod = 1 /\ probe.c1 = 1 /\ probe.n1 = 1
    /\ probe.c2 = 2 * 10 /\ probe.n2 = 2

\* C8: _on_update adds dt to the timer and loads exactly when the sum has
\* reached the interval, with the timer back at 0; so the timer is below the
\* interval after every callback, and a callback runs one pass at most.
C8_TimerFrame ==
    /\ [](update_timer < UpdateInterval /\ call.loads <= 1)
    /\ [][call'.handler = "update" =>
            /\ call'.loads = 1 <=> update_timer + call'.dt >= UpdateInterval
            /\ call'.loads = 1 => update_timer' = 0
            /\ call'.loads = 0 => update_timer' = update_timer + call'.dt]_vars

C8_Witness ==
    /\ call.handler = "update" /\ call.dt = 5 /\ call.loads = 1
    /\ call.exc = "RuntimeError" /\ update_timer = 0

\* C9: after a pass without error in which add_point_cloud_in_grid ran, the
\* live points are exactly those of the cell rendered last,
\* /World/Point_{last_x}_{last_z}_{k} for k < last_num_points; and before the
\* first call of add_point_cloud_in_grid there is none.
C9_LivePointsAreLastCell ==
    /\ first_poll = 0 => prims = {}
    /\ (call.exc = "ok" /\ call.created # {}) =>
           prims = CellPaths(last_x, last_z, last_num_points)

\* C10: the file index stays in 0..11; a load that completes sets it to
\* (index + 1) mod 12; a load that fails, and a callback that does not load,
\* leave it as it was.
C10_IndexFrame ==
    /\ [](current_file_index \in 0..(FileCount - 1))
    /\ [][IF call'.exc = "ok"
          THEN current_file_index' = (current_file_index + 1) % FileCount
          ELSE current_file_index' = current_file_index]_vars

C10_Witness ==
    /\ call.exc = "IndexError" /\ call.created # {}
    /\ current_file_index = FileCount - 1

====
